---- MODULE Spec2Model ----
(***************************************************************************)
(* oracle-migrate: the migration Set (lib/set.js) driving the MIGRATIONS   *)
(* table (lib/oracledb.js).                                                *)
(*                                                                         *)
(* A title is modelled by a number of 1..MaxTitle; the order < on these    *)
(* numbers stands for the order Array.prototype.sort() puts on the title   *)
(* strings.  The MIGRATIONS table is a bag of titles (the table has no     *)
(* unique constraint on TITLE), the Set's `history` and `migrations`       *)
(* arrays are sequences of titles.                                         *)
(***************************************************************************)
EXTENDS Integers, Sequences, FiniteSets, TLC

\* ------------------------------------------------------------------ bounds
MaxTitle == 2
MaxRequests == 2

Titles == 1..MaxTitle

\* migrationName: null (no name), the keyword 'all', or a file name
NoName == 0
AllName == -1
\* Array.prototype.find / shift yielding undefined
Undef == 0

Names == {NoName, AllName} \cup Titles
Directions == {"up", "down"}

VARIABLES
  db,          \* rows of table MIGRATIONS: title -> number of rows with that TITLE
  migrations,  \* Set.migrations: titles of the local files, in addMigration order
  history,     \* Set.history: titles loaded from the table, as kept in memory
  phase,       \* "Initializing" | "Ready" | "Failed"
  used,        \* this Set instance has already served a request
  pc,          \* "idle" | "action" (migration[direction] running) | "store" (save/removeEntry running)
  direction,   \* _migrate's direction
  queue,       \* _migrate's local `migrations` list (what is left of it)
  current,     \* the migration passed to next()
  req,         \* record of the request running or last finished
  prev,        \* record of the request before it
  nreq,        \* requests issued so far
  applied,     \* titles whose up action completed with no completed down action since
  other,       \* record of a request issued on the Set while another one was running
  promised,    \* titles of the migrations whose actions return a promise and never call next
  boot,        \* how the creation of table MIGRATIONS ended for this Set
  listening,   \* a listener of the Set's 'error' event is registered
  peer         \* record of a second Set, of another process, on the same table

\* what only the specifications of overlapping requests, promise actions and the
\* bootstrap change
more == <<listening, peer>>

ext == <<other, promised, boot, more>>

vars == <<db, migrations, history, phase, used, pc, direction, queue, current, req, prev, nreq, applied, ext>>

\* ------------------------------------------------------- sequence helpers
InSeq(s, x) == \E i \in 1..Len(s) : s[i] = x

\* Array.prototype.findIndex, 1-based; 0 when nothing matches (-1 in JS)
IndexOf(s, x) == IF InSeq(s, x) THEN CHOOSE i \in 1..Len(s) : s[i] = x /\ \A j \in 1..(i-1) : s[j] # x ELSE 0

Elems(s) == {s[i] : i \in 1..Len(s)}

Reverse(s) == [i \in 1..Len(s) |-> s[Len(s) + 1 - i]]

\* Array.prototype.slice(from) with a 0-based `from`
SliceFrom(s, from) == IF from >= Len(s) THEN <<>> ELSE SubSeq(s, from + 1, Len(s))

Rep(t, n) == [i \in 1..n |-> t]

RECURSIVE SortedRows(_, _)
\* rows.map(e => e.TITLE).sort(): every row's title, ascending
SortedRows(rows, t) == IF t > MaxTitle THEN <<>> ELSE Rep(t, rows[t]) \o SortedRows(rows, t + 1)

RECURSIVE SortedFiles(_, _)
\* readdirSync(dir).filter(..).sort(): the file names, ascending
SortedFiles(files, t) == IF t > MaxTitle THEN <<>> ELSE (IF t \in files THEN <<t>> ELSE <<>>) \o SortedFiles(files, t + 1)

EmptyDb == [t \in Titles |-> 0]

NoReq == [dir |-> "none", name |-> NoName, fresh |-> TRUE, phase |-> "none", reg |-> <<>>, dbStart |-> EmptyDb,
          histStart |-> <<>>, batch |-> <<>>, calls |-> <<>>, notes |-> <<>>, reverted |-> <<>>,
          status |-> "none", err |-> "none"]

\* no second Set
NoPeer == [phase |-> "none", history |-> <<>>, pc |-> "idle", queue |-> <<>>, current |-> Undef,
           calls |-> <<>>, together |-> FALSE, status |-> "none"]

\* no request was issued while another one was running
NoOther == [pc |-> "idle", dir |-> "none", name |-> NoName, queue |-> <<>>, current |-> Undef,
            calls |-> <<>>, at |-> <<>>, during |-> 0, half |-> FALSE,
            status |-> "none", err |-> "none"]

\* ------------------------------------------- _migrate: selecting the files
\* this.migrations.filter(e => !this.history.find(eh => eh === e.title))
Pending(migs, hist) == SelectSeq(migs, LAMBDA t : ~InSeq(hist, t))

\* this.migrations.find(e => e.title === t)
FindMigration(migs, t) == IF InSeq(migs, t) THEN t ELSE Undef

\* an up selection that goes on to the slice when the file name was not found
SelectUpNoReturn(name, migs, hist) ==
  LET pending == Pending(migs, hist)
  IN IF name = NoName
       THEN [err |-> "none", list |-> pending, hist |-> hist]
       ELSE [err |-> "none", list |-> SubSeq(pending, 1, IndexOf(pending, name)), hist |-> hist]

\* case 'up'
SelectUp(name, migs, hist) ==
  LET pending == Pending(migs, hist)
      index == IndexOf(pending, name)
  IN IF name = NoName
       THEN [err |-> "none", list |-> pending, hist |-> hist]
       ELSE IF index = 0
         THEN [err |-> IF InSeq(hist, name) THEN "executed before" ELSE "not exist",
               list |-> <<>>, hist |-> hist]
         ELSE [err |-> "none", list |-> SubSeq(pending, 1, index), hist |-> hist]

\* case 'down', no file name: const last = this.history.pop()
SelectDownOne(migs, hist) ==
  IF hist = <<>>
    THEN [err |-> "none", list |-> <<Undef>>, hist |-> hist]
    ELSE [err |-> "none", list |-> <<FindMigration(migs, hist[Len(hist)])>>,
          hist |-> SubSeq(hist, 1, Len(hist) - 1)]

\* a full reset that forgets migrations.reverse()
SelectDownAllForward(migs, hist) ==
  IF \E i \in 1..Len(hist) : ~InSeq(migs, hist[i])
    THEN [err |-> "can not be found in local files", list |-> <<>>, hist |-> hist]
    ELSE [err |-> "none", list |-> hist, hist |-> hist]

\* case 'down', migrationName === 'all'
SelectDownAll(migs, hist) ==
  IF \E i \in 1..Len(hist) : ~InSeq(migs, hist[i])
    THEN [err |-> "can not be found in local files", list |-> <<>>, hist |-> hist]
    ELSE [err |-> "none", list |-> Reverse(hist), hist |-> hist]

\* case 'down', a file name
SelectDownTo(name, migs, hist) ==
  LET index == IndexOf(hist, name)
      historyList == SelectSeq(migs, LAMBDA t : InSeq(hist, t))
  IN IF index = 0
       THEN [err |-> "not found", list |-> <<>>, hist |-> hist]
       ELSE [err |-> "none", list |-> Reverse(SliceFrom(historyList, index - 1)), hist |-> hist]

\* the switch (direction) of _migrate
Select(dir, name, migs, hist) ==
  IF dir = "up" THEN SelectUp(name, migs, hist)
  ELSE IF name = NoName THEN SelectDownOne(migs, hist)
  ELSE IF name = AllName THEN SelectDownAll(migs, hist)
  ELSE SelectDownTo(name, migs, hist)

\* ---------------------------------------------------------- the actions
\* what is remembered of the request before the last one
Summary(r) == [dir |-> r.dir, name |-> r.name, status |-> r.status, err |-> r.err, calls |-> r.calls]

\* The callback migrate() gives to _migrate is called: cb() of the request, or
\* this.emit('error', err) and then cb(err).  An EventEmitter with no listener for 'error'
\* throws the error out of emit(), and cb(err) is not reached.
Finish(r, status, err) ==
  [r EXCEPT !.status = IF status = "err" /\ ~listening THEN "thrown" ELSE status,
            !.err = err]

\* a next() that emits no 'migration' event
RunNextSilent(list, r) ==
  IF list = <<>> \/ Head(list) = Undef
    THEN /\ pc' = "idle"
         /\ req' = Finish(r, "ok", "none")
         /\ current' = Undef
         /\ queue' = IF list = <<>> THEN <<>> ELSE Tail(list)
    ELSE /\ pc' = "action"
         /\ req' = [r EXCEPT !.calls = Append(@, Head(list))]
         /\ current' = Head(list)
         /\ queue' = Tail(list)

\* next(migrations.shift()) with `list` the local list before the shift, `r` the request
\* record: emit('migration', migration, direction), then migration[direction](callback)
RunNext(list, r) ==
  IF list = <<>> \/ Head(list) = Undef
    THEN /\ pc' = "idle"
         /\ req' = Finish(r, "ok", "none")
         /\ current' = Undef
         /\ queue' = IF list = <<>> THEN <<>> ELSE Tail(list)
    ELSE /\ pc' = "action"
         /\ req' = [r EXCEPT !.notes = Append(@, <<Head(list), r.dir>>),
                             !.calls = Append(@, Head(list))]
         /\ current' = Head(list)
         /\ queue' = Tail(list)

\* the files of the migrations directory: the ones the Set was loaded from
Files == {migrations[i] : i \in 1..Len(migrations)}

\* migrate.load(dir, config): new Set(config), then addMigration for every file, sorted
Load ==
  /\ pc = "idle"
  /\ phase \notin {"Initializing", "Loading"}
  /\ migrations' = SortedFiles(Files, 1)
  /\ history' = <<>>
  /\ phase' = "Initializing"
  /\ used' = FALSE
  /\ boot' = "none"
  /\ UNCHANGED <<db, pc, direction, queue, current, req, prev, nreq, applied, other, promised, more>>

\* migrate(title, up, down): set.addMigration pushes the migration at the end of the list,
\* whatever its title and whatever the list holds; at most MaxTitle definitions are made
AddMigration(t) ==
  /\ pc = "idle"
  /\ Len(migrations) < MaxTitle
  /\ migrations' = Append(migrations, t)
  /\ UNCHANGED <<db, history, phase, used, pc, direction, queue, current, req, prev, nreq, applied, ext>>

\* checkDatabaseMigrationTable settles: load() then emit('init'), or emit('error')
InitDone(ok) ==
  /\ phase = "Initializing"
  /\ IF ok
       THEN /\ history' = SortedRows(db, 1)
            /\ phase' = "Ready"
       ELSE /\ history' = history
            /\ phase' = "Failed"
  /\ UNCHANGED <<db, migrations, used, pc, direction, queue, current, req, prev, nreq, applied, ext>>

\* set.up(name, cb) / set.down(name, cb) once the request before it has called back:
\* migrate() passes the request to _migrate, which selects the files and starts the first
Request(dir, name) ==
  /\ pc = "idle"
  /\ nreq < MaxRequests
  /\ LET sel == Select(dir, name, migrations, history)
         r == [dir |-> dir, name |-> name, fresh |-> ~used, phase |-> phase, reg |-> migrations,
               dbStart |-> db,
               histStart |-> history, batch |-> sel.list, calls |-> <<>>, notes |-> <<>>,
               reverted |-> <<>>, status |-> "running", err |-> "none"]
     IN /\ history' = sel.hist
        /\ IF sel.err # "none"
             THEN /\ pc' = "idle"
                  /\ req' = Finish(r, "err", sel.err)
                  /\ UNCHANGED <<queue, current>>
             ELSE RunNext(sel.list, r)
  /\ direction' = dir
  /\ prev' = Summary(req)
  /\ used' = TRUE
  /\ nreq' = nreq + 1
  /\ UNCHANGED <<db, migrations, phase, applied, ext>>

\* a request issued as commands.js does: once 'init' was emitted
Migrate(dir, name) ==
  /\ phase = "Ready"
  /\ Request(dir, name)

\* a request issued before 'init' or after the 'error' of a failed initialisation:
\* migrate() does not look at how far checkDatabaseMigrationTable() got
MigrateEarly(dir, name) ==
  /\ phase # "Ready"
  /\ Request(dir, name)

\* an INSERT that keeps one row for a title
SaveRowOnce(rows, t) == [rows EXCEPT ![t] = 1]

\* saveMigrateData: INSERT INTO MIGRATIONS ... and commit
SaveRow(rows, t) == [rows EXCEPT ![t] = @ + 1]

\* a DELETE that lost its WHERE clause
RemoveEveryRow(rows, t) == [u \in Titles |-> 0]

\* removeMigrateEntry: DELETE FROM MIGRATIONS WHERE TITLE = :title and commit
RemoveRows(rows, t) == [rows EXCEPT ![t] = 0]

\* what migration[direction] did to the schema: all of its statements, or none of them
Effect(ok) ==
  IF ~ok THEN applied
  ELSE IF direction = "up" THEN applied \cup {current} ELSE applied \ {current}

\* a callback that records the migration before it looks at err
ActionDoneRecordsFirst(ok) ==
  /\ pc = "action"
  /\ applied' = Effect(ok)
  /\ db' = IF direction = "up" THEN SaveRow(db, current) ELSE RemoveRows(db, current)
  /\ IF ok
       THEN /\ pc' = "store"
            /\ req' = req
       ELSE /\ pc' = "idle"
            /\ req' = [req EXCEPT !.status = "err", !.err = "action"]
  /\ UNCHANGED <<migrations, history, phase, used, direction, queue, current, prev, nreq, ext>>

\* a callback that goes on to the next migration without waiting for save / removeEntry
ActionDoneNoWait(ok) ==
  /\ pc = "action"
  /\ applied' = Effect(ok)
  /\ IF ok
       THEN RunNext(queue, req)
       ELSE /\ pc' = "idle"
            /\ req' = Finish(req, "err", "action")
            /\ UNCHANGED <<queue, current>>
  /\ UNCHANGED <<db, migrations, history, phase, used, direction, prev, nreq, ext>>

\* a callback that undoes the migrations of the batch when one of them fails
ActionDoneRollsBack(ok) ==
  /\ pc = "action"
  /\ IF ok
       THEN /\ pc' = "store"
            /\ req' = req
            /\ applied' = Effect(ok)
            /\ db' = db
       ELSE /\ pc' = "idle"
            /\ req' = Finish(req, "err", "action")
            /\ applied' = IF direction = "up" THEN applied \ Elems(req.calls)
                          ELSE applied \cup Elems(req.calls)
            /\ db' = req.dbStart
  /\ UNCHANGED <<migrations, history, phase, used, direction, queue, current, prev, nreq, ext>>

\* the callback given to migration[direction] is called
ActionDone(ok) ==
  /\ pc = "action"
  /\ current \notin promised
  /\ applied' = Effect(ok)
  /\ IF ok
       THEN /\ pc' = "store"
            /\ req' = req
       ELSE /\ pc' = "idle"
            /\ req' = Finish(req, "err", "action")
  /\ UNCHANGED <<db, migrations, history, phase, used, direction, queue, current, prev, nreq, ext>>

\* a rejected save / removeEntry that is followed by the next migration all the same
StoreDoneGoesOn(ok) ==
  /\ pc = "store"
  /\ db' = IF ~ok THEN db
           ELSE IF direction = "up" THEN SaveRow(db, current) ELSE RemoveRows(db, current)
  /\ RunNext(queue, req)
  /\ UNCHANGED <<migrations, history, phase, used, direction, prev, nreq, applied, ext>>

\* self.save(title) / self.removeEntry(title) settles
StoreDone(ok) ==
  /\ pc = "store"
  /\ IF ok
       THEN /\ db' = IF direction = "up" THEN SaveRow(db, current) ELSE RemoveRows(db, current)
            /\ RunNext(queue, req)
       ELSE /\ db' = db
            /\ pc' = "idle"
            /\ req' = Finish(req, "err", "store")
            /\ UNCHANGED <<queue, current>>
  /\ UNCHANGED <<migrations, history, phase, used, direction, prev, nreq, applied, ext>>

\* A Set just constructed by migrate.load over some migrations directory.  The table holds
\* what earlier runs left in it: at most one row for any title, with or without a local
\* file of that name still in the directory, each the row of a migration that was applied.
Init ==
  /\ db \in [Titles -> 0..1]
  /\ \E files \in SUBSET Titles : migrations = SortedFiles(files, 1)
  /\ history = <<>>
  /\ phase = "Initializing"
  /\ used = FALSE
  /\ pc = "idle"
  /\ direction = "up"
  /\ queue = <<>>
  /\ current = Undef
  /\ req = NoReq
  /\ prev = Summary(NoReq)
  /\ nreq = 0
  /\ applied = {t \in Titles : db[t] > 0}
  /\ other = NoOther
  /\ promised = {}
  /\ boot = "none"
  /\ listening = TRUE
  /\ peer = NoPeer

Next ==
  \/ Load
  \/ \E ok \in BOOLEAN : InitDone(ok)
  \/ \E dir \in Directions, name \in Names : Migrate(dir, name)
  \/ \E ok \in BOOLEAN : ActionDone(ok)
  \/ \E ok \in BOOLEAN : StoreDone(ok)

\* requests issued on a Set through set.up / set.down, one after the other, any number
\* of them on one instance
Spec == Init /\ [][Next]_vars

\* the command line: every request is the only one of a Set loaded for it
NextCli ==
  \/ Load
  \/ \E ok \in BOOLEAN : InitDone(ok)
  \/ \E dir \in Directions, name \in Names : ~used /\ Migrate(dir, name)
  \/ \E ok \in BOOLEAN : ActionDone(ok)
  \/ \E ok \in BOOLEAN : StoreDone(ok)

SpecCli == Init /\ [][NextCli]_vars

\* The command line on a database that was never migrated: table MIGRATIONS is empty, the
\* migrations directory does not change, every request is made by a newly loaded Set.
InitClean ==
  /\ db = EmptyDb
  /\ \E files \in SUBSET Titles : migrations = SortedFiles(files, 1)
  /\ history = <<>>
  /\ phase = "Initializing"
  /\ used = FALSE
  /\ pc = "idle"
  /\ direction = "up"
  /\ queue = <<>>
  /\ current = Undef
  /\ req = NoReq
  /\ prev = Summary(NoReq)
  /\ nreq = 0
  /\ applied = {}
  /\ other = NoOther
  /\ promised = {}
  /\ boot = "none"
  /\ listening = TRUE
  /\ peer = NoPeer

SpecClean == InitClean /\ [][NextCli]_vars

\* A Set constructed by migrate(path), its migrations defined one by one with
\* migrate(title, up, down) instead of read from a directory.
InitAdd ==
  /\ db \in [Titles -> 0..1]
  /\ migrations = <<>>
  /\ history = <<>>
  /\ phase = "Initializing"
  /\ used = FALSE
  /\ pc = "idle"
  /\ direction = "up"
  /\ queue = <<>>
  /\ current = Undef
  /\ req = NoReq
  /\ prev = Summary(NoReq)
  /\ nreq = 0
  /\ applied = {t \in Titles : db[t] > 0}
  /\ other = NoOther
  /\ promised = {}
  /\ boot = "none"
  /\ listening = TRUE
  /\ peer = NoPeer

NextAdd ==
  \/ \E t \in Titles : AddMigration(t)
  \/ Next

SpecAdd == InitAdd /\ [][NextAdd]_vars

\* ------------------------------------------- the initialisation, step by step
\* how runTransactionSequence(sqlCreateMigrationTableArray) can end: every statement ran,
\* a statement failed with ORA-00955, with another message or with an error that has no
\* message, or getConnection() was rejected
BootOutcomes == {"created", "ORA-00955", "other", "no message", "no connection"}

\* err.message && !err.message.includes('00955')
Rethrown(e) == e \in {"ORA-00955", "other"} /\ e # "ORA-00955"

\* checkMigrationTableExists() is through.  The promise of runTransactionSequence has no
\* handler for a rejected getConnection(): it then never settles.
BootstrapDone(e) ==
  /\ phase = "Initializing"
  /\ boot' = e
  /\ phase' = IF e = "no connection" THEN "Stuck"
              ELSE IF e # "created" /\ Rethrown(e) THEN "Failed"
              ELSE "Loading"
  /\ UNCHANGED <<db, migrations, history, used, pc, direction, queue, current, req, prev, nreq,
                 applied, other, promised, more>>

\* load() settles: emit('init'), or emit('error')
LoadDone(ok) ==
  /\ phase = "Loading"
  /\ IF ok
       THEN /\ history' = SortedRows(db, 1)
            /\ phase' = "Ready"
       ELSE /\ history' = history
            /\ phase' = "Failed"
  /\ UNCHANGED <<db, migrations, used, pc, direction, queue, current, req, prev, nreq, applied, ext>>

NextBoot ==
  \/ Load
  \/ \E e \in BootOutcomes : BootstrapDone(e)
  \/ \E ok \in BOOLEAN : LoadDone(ok)
  \/ \E dir \in Directions, name \in Names : Migrate(dir, name)
  \/ \E ok \in BOOLEAN : ActionDone(ok)
  \/ \E ok \in BOOLEAN : StoreDone(ok)

\* the Set with its initialisation in two steps; a pending database call ends
SpecBoot ==
  /\ Init /\ [][NextBoot]_vars
  /\ WF_vars(\E e \in BootOutcomes : BootstrapDone(e))
  /\ WF_vars(\E ok \in BOOLEAN : LoadDone(ok))

NextEarly ==
  \/ Next
  \/ \E dir \in Directions, name \in Names : MigrateEarly(dir, name)

\* a caller that does not wait for 'init' before it issues a request
SpecEarly == Init /\ [][NextEarly]_vars

\* ------------------------------------------------ actions that return promises
\* The promise returned by migration[direction] settles.  next() passed a callback, keeps
\* no reference to the returned value and attaches nothing to it: nothing follows.
PromiseSettled(ok) ==
  /\ pc = "action"
  /\ current \in promised
  /\ applied' = Effect(ok)
  /\ pc' = "lost"
  /\ UNCHANGED <<db, migrations, history, phase, used, direction, queue, current, req, prev,
                 nreq, ext>>

\* a directory where some of the files come from the template whose up and down return
\* a promise and never call next
InitPromise ==
  /\ db \in [Titles -> 0..1]
  /\ \E files \in SUBSET Titles : migrations = SortedFiles(files, 1)
  /\ history = <<>>
  /\ phase = "Initializing"
  /\ used = FALSE
  /\ pc = "idle"
  /\ direction = "up"
  /\ queue = <<>>
  /\ current = Undef
  /\ req = NoReq
  /\ prev = Summary(NoReq)
  /\ nreq = 0
  /\ applied = {t \in Titles : db[t] > 0}
  /\ other = NoOther
  /\ promised \in SUBSET Titles
  /\ boot = "none"
  /\ listening = TRUE
  /\ peer = NoPeer

NextPromise ==
  \/ Next
  \/ \E ok \in BOOLEAN : PromiseSettled(ok)

\* every action started comes to its end, every database call is answered
SpecPromise ==
  /\ InitPromise /\ [][NextPromise]_vars
  /\ WF_vars(\E ok \in BOOLEAN : ActionDone(ok))
  /\ WF_vars(\E ok \in BOOLEAN : PromiseSettled(ok))
  /\ WF_vars(\E ok \in BOOLEAN : StoreDone(ok))

\* ------------------------------------------- migrations made from the template
\* a template up that calls next(error) without running its own down
TemplateUpNoRevert(ok) ==
  /\ pc = "action"
  /\ direction = "up"
  /\ applied' = Effect(ok)
  /\ IF ok
       THEN /\ pc' = "store"
            /\ req' = req
       ELSE /\ pc' = "idle"
            /\ req' = Finish(req, "err", "action")
  /\ UNCHANGED <<db, migrations, history, phase, used, direction, queue, current, prev, nreq, ext>>

\* exports.up of the template: the up script ran (next(null)), or one of its statements
\* failed and the .catch calls exports.down before anything is reported
TemplateUp(ok) ==
  /\ pc = "action"
  /\ direction = "up"
  /\ applied' = Effect(ok)
  /\ pc' = IF ok THEN "store" ELSE "revert"
  /\ UNCHANGED <<db, migrations, history, phase, used, direction, queue, current, req, prev,
                 nreq, ext>>

\* the exports.down called by a failed up calls back: () => next(error), error being the
\* one of the up script whatever the down script did
RevertDone(ok) ==
  /\ pc = "revert"
  /\ applied' = IF ok THEN applied \ {current} ELSE applied
  /\ pc' = "idle"
  /\ req' = Finish([req EXCEPT !.reverted = Append(@, <<current, ok>>)], "err", "action")
  /\ UNCHANGED <<db, migrations, history, phase, used, direction, queue, current, prev, nreq, ext>>

\* exports.down of the template, called by the Set: next(null) or next(error)
TemplateDown(ok) ==
  /\ direction = "down"
  /\ ActionDone(ok)

NextTemplate ==
  \/ Load
  \/ \E ok \in BOOLEAN : InitDone(ok)
  \/ \E dir \in Directions, name \in Names : Migrate(dir, name)
  \/ \E ok \in BOOLEAN : TemplateUp(ok)
  \/ \E ok \in BOOLEAN : RevertDone(ok)
  \/ \E ok \in BOOLEAN : TemplateDown(ok)
  \/ \E ok \in BOOLEAN : StoreDone(ok)

\* a directory where every file was made by `oracle-migrate create`
SpecTemplate == Init /\ [][NextTemplate]_vars

\* ------------------------------------------------- the 'error' event of a request
\* a Set used as a library, with or without a listener for its 'error' event
InitListen ==
  /\ db \in [Titles -> 0..1]
  /\ \E files \in SUBSET Titles : migrations = SortedFiles(files, 1)
  /\ history = <<>>
  /\ phase = "Initializing"
  /\ used = FALSE
  /\ pc = "idle"
  /\ direction = "up"
  /\ queue = <<>>
  /\ current = Undef
  /\ req = NoReq
  /\ prev = Summary(NoReq)
  /\ nreq = 0
  /\ applied = {t \in Titles : db[t] > 0}
  /\ other = NoOther
  /\ promised = {}
  /\ boot = "none"
  /\ listening \in BOOLEAN
  /\ peer = NoPeer

\* every migration action calls back and every save / removeEntry settles
SpecListen ==
  /\ InitListen /\ [][Next]_vars
  /\ WF_vars(\E ok \in BOOLEAN : ActionDone(ok))
  /\ WF_vars(\E ok \in BOOLEAN : StoreDone(ok))

\* ------------------------------------------- two Sets on the same table
\* A second process runs the command line on the same directory and the same database.
\* Its Set is constructed and loads: this.history is the rows of the table at that time.
PeerLoad ==
  /\ peer.phase = "none"
  /\ peer' = [peer EXCEPT !.phase = "Ready", !.history = SortedRows(db, 1)]
  /\ UNCHANGED <<db, migrations, history, phase, used, pc, direction, queue, current, req, prev,
                 nreq, applied, other, promised, boot, listening>>

\* what the second Set's next(migration) does with the rest of its list
PeerNext(list) ==
  IF list = <<>>
    THEN [peer EXCEPT !.pc = "idle", !.status = "ok"]
    ELSE [peer EXCEPT !.pc = "action", !.current = Head(list), !.queue = Tail(list),
                      !.calls = Append(@, Head(list)),
                      !.together = @ \/ pc # "idle"]

\* the second process calls set.up(cb) from its 'init' listener
PeerUp ==
  /\ peer.phase = "Ready" /\ peer.pc = "idle" /\ peer.status = "none"
  /\ peer' = PeerNext(SelectUp(NoName, migrations, peer.history).list)
  /\ UNCHANGED <<db, migrations, history, phase, used, pc, direction, queue, current, req, prev,
                 nreq, applied, other, promised, boot, listening>>

\* the up action of the second Set's migration calls back
PeerActionDone(ok) ==
  /\ peer.pc = "action"
  /\ applied' = IF ok THEN applied \cup {peer.current} ELSE applied
  /\ peer' = IF ok THEN [peer EXCEPT !.pc = "store"]
                   ELSE [peer EXCEPT !.pc = "idle", !.status = "err"]
  /\ UNCHANGED <<db, migrations, history, phase, used, pc, direction, queue, current, req, prev,
                 nreq, other, promised, boot, listening>>

\* the second Set's save(migration) settles
PeerStoreDone(ok) ==
  /\ peer.pc = "store"
  /\ db' = IF ok THEN SaveRow(db, peer.current) ELSE db
  /\ peer' = IF ok THEN PeerNext(peer.queue)
                   ELSE [peer EXCEPT !.pc = "idle", !.status = "err"]
  /\ UNCHANGED <<migrations, history, phase, used, pc, direction, queue, current, req, prev,
                 nreq, applied, other, promised, boot, listening>>

\* two processes each run `up` once
NextPeers ==
  \/ \E ok \in BOOLEAN : InitDone(ok)
  \/ ~used /\ Migrate("up", NoName)
  \/ \E ok \in BOOLEAN : ActionDone(ok)
  \/ \E ok \in BOOLEAN : StoreDone(ok)
  \/ PeerLoad
  \/ PeerUp
  \/ \E ok \in BOOLEAN : PeerActionDone(ok)
  \/ \E ok \in BOOLEAN : PeerStoreDone(ok)

SpecPeers == Init /\ [][NextPeers]_vars

\* ------------------------------------- a request issued during another one
\* next(migrations.shift()) of the request issued during another one
OtherNext(list, o) ==
  IF list = <<>> \/ Head(list) = Undef
    THEN [o EXCEPT !.pc = "idle", !.status = "ok", !.current = Undef,
                   !.queue = IF list = <<>> THEN <<>> ELSE Tail(list)]
    ELSE [o EXCEPT !.pc = "action", !.calls = Append(@, Head(list)),
                   !.at = Append(@, Len(req.calls)),
                   !.current = Head(list), !.queue = Tail(list)]

\* set.up(name, cb) / set.down(name, cb) called while the request before it has not called
\* back: migrate() has no test for a running request, _migrate selects and starts at once
MigrateOverlap(dir, name) ==
  /\ phase = "Ready"
  /\ pc # "idle"
  /\ other.status = "none"
  /\ LET sel == Select(dir, name, migrations, history)
         o == [NoOther EXCEPT !.dir = dir, !.name = name, !.during = nreq,
                              !.half = (db # req.dbStart), !.status = "running"]
     IN /\ history' = sel.hist
        /\ other' = IF sel.err # "none"
                      THEN [o EXCEPT !.status = "err", !.err = sel.err]
                      ELSE OtherNext(sel.list, o)
  /\ UNCHANGED <<db, migrations, phase, used, pc, direction, queue, current, req, prev, nreq,
                 applied, promised, boot, more>>

\* the callback given to migration[direction] by the overlapping request is called
OtherActionDone(ok) ==
  /\ other.pc = "action"
  /\ applied' = IF ~ok THEN applied
                ELSE IF other.dir = "up" THEN applied \cup {other.current}
                ELSE applied \ {other.current}
  /\ other' = IF ok THEN [other EXCEPT !.pc = "store"]
              ELSE [other EXCEPT !.pc = "idle", !.status = "err", !.err = "action"]
  /\ UNCHANGED <<db, migrations, history, phase, used, pc, direction, queue, current, req, prev,
                 nreq, promised, boot, more>>

\* save / removeEntry of the overlapping request settles
OtherStoreDone(ok) ==
  /\ other.pc = "store"
  /\ IF ok
       THEN /\ db' = IF other.dir = "up" THEN SaveRow(db, other.current)
                     ELSE RemoveRows(db, other.current)
            /\ other' = OtherNext(other.queue, other)
       ELSE /\ db' = db
            /\ other' = [other EXCEPT !.pc = "idle", !.status = "err", !.err = "store"]
  /\ UNCHANGED <<migrations, history, phase, used, pc, direction, queue, current, req, prev,
                 nreq, applied, promised, boot, more>>

NextOverlap ==
  \/ Next
  \/ \E dir \in Directions, name \in Names : MigrateOverlap(dir, name)
  \/ \E ok \in BOOLEAN : OtherActionDone(ok)
  \/ \E ok \in BOOLEAN : OtherStoreDone(ok)

\* a caller that does not wait for the callback of a request before it issues the next
SpecOverlap == Init /\ [][NextOverlap]_vars

\* ------------------------------------------------------------ properties
\* the titles recorded in the table `rows`
Recorded(rows) == {t \in Titles : rows[t] > 0}

\* the request record `r` is one of a finished request
Over(r) == r.status \in {"ok", "err"}

\* the last request is over and nothing of its environment failed (no action, no store operation)
Clean == pc = "idle" /\ Over(req) /\ req.err \notin {"action", "store"}

\* every title recorded when the last request started has a local file
NoOrphan == Recorded(req.dbStart) \subseteq Elems(req.reg)

\* rows with one more row for every element of `s`
Plus(rows, s) == [t \in Titles |-> rows[t] + Cardinality({i \in 1..Len(s) : s[i] = t})]

\* rows without the rows of the titles in `s`
Minus(rows, s) == [t \in Titles |-> IF t \in Elems(s) THEN 0 ELSE rows[t]]

\* the titles of `S`, descending
Descending(S) == Reverse(SortedFiles(S, 1))

\* C1: an up request never invokes the up action of a migration whose title is recorded
\* in the MIGRATIONS table at the moment the request starts.
C1_UpRunsOnlyUnrecorded ==
  req.dir = "up" => \A i \in 1..Len(req.calls) : req.dbStart[req.calls[i]] = 0

\* C2: with a sorted registry and no row in the table, up with no name invokes the up
\* actions of all registry titles once each, ascending, records them all and succeeds.
C2_UpAllFromEmpty ==
  (Clean /\ req.dir = "up" /\ req.name = NoName /\ req.dbStart = EmptyDb)
    => /\ req.status = "ok"
       /\ req.calls = SortedFiles(Elems(req.reg), 1)
       /\ db = Plus(EmptyDb, req.reg)

\* C3: after a successful up with no name, a second up with no name invokes no action,
\* appends no row and succeeds.
C3_SecondUpIsNoop ==
  (Over(prev) /\ prev.dir = "up" /\ prev.name = NoName /\ prev.status = "ok"
     /\ req.dir = "up" /\ req.name = NoName)
    => /\ req.calls = <<>>
       /\ db = req.dbStart
       /\ pc = "idle" /\ req.status = "ok"

\* C4: a successful up with no name followed by down 'all' leaves the table empty, the
\* down actions being invoked once each in descending title order.
C4_UpThenDownAll ==
  (Clean /\ NoOrphan /\ prev.dir = "up" /\ prev.name = NoName /\ prev.status = "ok"
     /\ req.dir = "down" /\ req.name = AllName)
    => /\ db = EmptyDb
       /\ req.calls = Descending(Recorded(req.dbStart))

\* C5: a successful up with no name followed by down with no name removes exactly the
\* greatest recorded title and invokes only that migration's down action.
C5_UpThenDownOne ==
  (Clean /\ NoOrphan /\ prev.dir = "up" /\ prev.name = NoName /\ prev.status = "ok"
     /\ req.dir = "down" /\ req.name = NoName /\ Recorded(req.dbStart) # {})
    => LET last == CHOOSE t \in Recorded(req.dbStart) : \A u \in Recorded(req.dbStart) : u <= t
       IN /\ req.calls = <<last>>
          /\ db = Minus(req.dbStart, <<last>>)

\* the registry titles with no row in the table when the last request started, ascending
PendingAtStart == SelectSeq(req.reg, LAMBDA t : req.dbStart[t] = 0)

\* C6: up(target) with target at index i of the pending sequence executes exactly
\* pending[0..i], ascending, and records exactly those titles; nothing after target.
C6_UpTo ==
  (req.dir = "up" /\ req.name \in Elems(PendingAtStart))
    => LET upto == SubSeq(PendingAtStart, 1, IndexOf(PendingAtStart, req.name))
       IN /\ \E n \in 0..Len(upto) : req.calls = SubSeq(upto, 1, n)
          /\ Clean => (req.calls = upto /\ db = Plus(req.dbStart, upto))

\* C7: down(target) with target recorded (and a local file for every title of the range)
\* reverts exactly the recorded titles from target through the greatest, descending, each
\* row removed after its down action, and leaves every smaller recorded title untouched.
C7_DownTo ==
  LET range == Descending({t \in Recorded(req.dbStart) : t >= req.name})
  IN (req.dir = "down" /\ req.name \in Recorded(req.dbStart) /\ Elems(range) \subseteq Elems(req.reg))
    => /\ \E n \in 0..Len(range) : req.calls = SubSeq(range, 1, n)
       /\ Clean => (req.status = "ok" /\ req.calls = range /\ db = Minus(req.dbStart, range))

\* the migrations of the last request whose action completed before the failing one
Completed == SubSeq(req.calls, 1, Len(req.calls) - 1)

\* the last request is over, stopped by the failure of a migration action
ActionFailed == pc = "idle" /\ Over(req) /\ req.err = "action"

\* C8: when the k-th up action of a batch fails, the request ends with an error, the table
\* holds what it held plus the first k-1 titles of the batch, no row is added for the
\* failing title and no later migration of the batch is invoked.
C8_UpStopsAtFailure ==
  (ActionFailed /\ req.dir = "up")
    => /\ req.status = "err"
       /\ req.calls = SubSeq(req.batch, 1, Len(req.calls))
       /\ db = Plus(req.dbStart, Completed)
       /\ db[req.calls[Len(req.calls)]] = req.dbStart[req.calls[Len(req.calls)]]

C8_Witness ==
  ActionFailed /\ req.dir = "up" /\ Len(req.calls) = 2 /\ Len(req.batch) = 2

\* C9: after an up with no name that failed in a migration action, the next up with no
\* name starts at the migration that failed and invokes no migration the failed request
\* had applied and recorded.
C9_RetryAfterFailure ==
  (Over(prev) /\ prev.dir = "up" /\ prev.name = NoName /\ prev.err = "action"
     /\ req.dir = "up" /\ req.name = NoName)
    => /\ req.batch # <<>> /\ req.batch[1] = prev.calls[Len(prev.calls)]
       /\ \A i \in 1..(Len(prev.calls) - 1) : prev.calls[i] \notin Elems(req.calls)

\* C10: when a down action fails during down 'all' or down(target), the request ends with
\* that error, the rows of the migrations already reverted in the batch are removed, no
\* other row is touched and no later migration of the batch is invoked.
C10_DownStopsAtFailure ==
  (ActionFailed /\ req.dir = "down" /\ req.name # NoName)
    => /\ req.status = "err"
       /\ req.calls = SubSeq(req.batch, 1, Len(req.calls))
       /\ db = Minus(req.dbStart, Completed)

C10_Witness ==
  /\ ActionFailed /\ req.dir = "down" /\ req.name # NoName
  /\ Len(req.calls) = 2 /\ Recorded(db) = {req.calls[2]} /\ Recorded(req.dbStart) = Titles

\* the last request ended in its selection step with error `e`: no action invoked, no row touched
Refused(e) ==
  /\ pc = "idle" /\ req.status = "err" /\ req.err = e
  /\ req.calls = <<>>
  /\ db = req.dbStart

\* C11: up(Tk) with Tk recorded in the table when the request starts fails with the
\* "executed before" error, invokes no action and leaves the table as it was, whatever
\* else is pending.
C11_UpAlreadyApplied ==
  (req.dir = "up" /\ req.name \in Recorded(req.dbStart)) => Refused("executed before")

\* C12: up(target) with a target that is neither a pending registry title nor a recorded
\* title fails with the "not exist" error, invokes no action and leaves the table as it was.
C12_UpUnknownTarget ==
  (req.dir = "up" /\ req.name # NoName
     /\ req.name \notin Elems(PendingAtStart) /\ req.name \notin Recorded(req.dbStart))
    => Refused("not exist")

C12_Witness ==
  /\ req.dir = "up" /\ req.name \in Titles
  /\ req.name \notin Elems(req.reg) /\ req.name \notin Recorded(req.dbStart)
  /\ PendingAtStart # <<>>
  /\ Refused("not exist")

\* C13: down(Tx) with a title Tx that is not recorded when the request starts fails with
\* the "not found" error, invokes no down action and leaves the table as it was, also
\* when Tx is a registry title that was never applied.
C13_DownUnknownTarget ==
  (req.dir = "down" /\ req.name \in Titles /\ req.name \notin Recorded(req.dbStart))
    => Refused("not found")

\* C14: down 'all' with a recorded title that has no migration in the registry fails with
\* the "can not be found in local files" error before any down action, table unchanged.
C14_DownAllMismatch ==
  (req.dir = "down" /\ req.name = AllName /\ ~NoOrphan)
    => Refused("can not be found in local files")

\* C15: down(target) with target recorded and a recorded title of the range target..greatest
\* without a migration in the registry fails with the "can not be found in local files"
\* error and reverts nothing outside that range.
C15_DownToMismatch ==
  LET range == {t \in Recorded(req.dbStart) : t >= req.name}
  IN (req.dir = "down" /\ req.name \in Recorded(req.dbStart) /\ ~(range \subseteq Elems(req.reg)))
    => /\ pc = "idle" /\ req.status = "err" /\ req.err = "can not be found in local files"
       /\ Elems(req.calls) \subseteq range

\* C16: down with no name and a non-empty table either invokes the down action of the
\* greatest recorded title or ends with an error; it never succeeds without that action,
\* also when the greatest recorded title has no migration in the registry.
C16_DownOneNeverSilent ==
  (req.dir = "down" /\ req.name = NoName /\ Recorded(req.dbStart) # {})
    => LET last == CHOOSE t \in Recorded(req.dbStart) : \A u \in Recorded(req.dbStart) : u <= t
       IN \/ req.calls = <<last>>
          \/ pc = "idle" /\ req.status = "err"

\* C17: whenever no request is running, a title has a row in the table exactly when its up
\* action completed and its down action has not completed since, also after a failed
\* migration action and after a failed insert or delete of the row.
C17_HistoryAccurate ==
  pc = "idle" => Recorded(db) = applied

\* C18: a row of title T is inserted only in the step that follows the success of T's up
\* action and removed only in the step that follows the success of T's down action; no
\* step touches the row of a title whose action failed or was not invoked.
C18_RowsFollowActions ==
  [][\A t \in Titles :
       /\ db'[t] > db[t]
            => /\ pc = "store" /\ direction = "up" /\ current = t
               /\ req.calls[Len(req.calls)] = t /\ t \in applied
               /\ db'[t] = db[t] + 1
       /\ db'[t] < db[t]
            => /\ pc = "store" /\ direction = "down" /\ current = t
               /\ req.calls[Len(req.calls)] = t /\ t \notin applied]_vars

C18_Witness ==
  /\ pc = "idle" /\ req.dir = "down" /\ req.err = "action" /\ Len(req.calls) = 2
  /\ db[req.calls[1]] < req.dbStart[req.calls[1]]
  /\ db[req.calls[2]] = req.dbStart[req.calls[2]]

\* C19: no two rows of the table carry the same title, in every state, several requests
\* on one Set included.
C19_TitlesUnique ==
  \A t \in Titles : db[t] <= 1

\* consecutive elements of `s` grow
Ascending(s) == \A i \in 1..(Len(s) - 1) : s[i] < s[i + 1]

\* the sequence `s` holds no element twice
Distinct(s) == \A i, j \in 1..Len(s) : i # j => s[i] # s[j]

\* C20: within one request the titles of the invoked actions are strictly ascending for up
\* and strictly descending for down, whatever the order in which the migrations (each
\* title once) were added.
C20_BatchOrdered ==
  Distinct(req.reg)
    => /\ req.dir = "up" => Ascending(req.calls)
       /\ req.dir = "down" => Ascending(Reverse(req.calls))

\* C21: while a migration action of a request is in flight, every migration invoked before
\* it in that request has completed successfully and its row is inserted (up) or removed
\* (down): the action of migration k+1 is invoked only after migration k is committed.
C21_OneAtATime ==
  pc = "action"
    => /\ current = req.calls[Len(req.calls)]
       /\ req.dir = "up" => (db = Plus(req.dbStart, Completed) /\ Elems(Completed) \subseteq applied)
       /\ req.dir = "down" => (db = Minus(req.dbStart, Completed) /\ Elems(Completed) \cap applied = {})

C21_Witness ==
  pc = "action" /\ Len(req.calls) = 2 /\ req.calls[1] # req.calls[2]

\* C22: when a request is issued while another one is running, none of its actions is
\* invoked between two actions of the running request, and it does not select its
\* migrations from a table the running request has changed and is still changing.
C22_NoInterleaving ==
  (other.status # "none" /\ other.during = nreq)
    => /\ \A i \in 1..Len(other.at) : ~(0 < other.at[i] /\ other.at[i] < Len(req.calls))
       /\ ~other.half

\* C23: a request issued while the Set is initializing or after its initialization failed
\* invokes no migration action and changes no row of the table.
C23_OnlyWhenReady ==
  req.phase \in {"Initializing", "Failed"} => (req.calls = <<>> /\ db = req.dbStart)

\* C24: the initialisation of a constructed Set ends: it leads to 'init' (phase Ready) or
\* to 'error' (phase Failed), one of the two and always one.
C24_InitSignals ==
  (phase = "Initializing") ~> (phase \in {"Ready", "Failed"})

\* C25: a failure of the bootstrap other than ORA-00955, whatever its shape, makes the
\* initialisation fail.
C25_OnlyExistsSwallowed ==
  boot \in BootOutcomes \ {"created", "ORA-00955"} => phase = "Failed"

\* C27: a migration action that was invoked is always followed by the rest of the request
\* (the row is written and the next migration started) or by the request's error, also
\* when the action answers through the promise it returns and never calls its callback.
C27_PromiseActions ==
  (pc = "action") ~> (pc \in {"store", "idle"})

C29_NoCrossRollback ==
  /\ \A i \in 1..Len(req.notes) : req.notes[i][2] = req.dir
  /\ req.dir = "up" => \A t \in Titles : db[t] >= req.dbStart[t]
  /\ req.dir = "down" => \A t \in Titles : db[t] <= req.dbStart[t]
  /\ (ActionFailed /\ req.dir = "up")
       => (db = Plus(req.dbStart, Completed) /\ Elems(Completed) \subseteq applied)
  /\ (ActionFailed /\ req.dir = "down")
       => (db = Minus(req.dbStart, Completed) /\ Elems(Completed) \cap applied = {})

C29_Witness ==
  /\ ActionFailed /\ req.dir = "up" /\ Len(req.calls) = 2
  /\ req.calls[1] \in applied /\ db[req.calls[1]] > req.dbStart[req.calls[1]]

\* C30: when the up script of a template migration fails, the request is not over before
\* the migration's own down was called; the request then ends with the error of the up
\* script, whether that down succeeded or failed, and no row is added for the title.
C30_TemplateReverts ==
  /\ pc = "revert" => req.status = "running"
  /\ (ActionFailed /\ req.dir = "up")
       => /\ \E ok \in BOOLEAN : req.reverted = <<<<req.calls[Len(req.calls)], ok>>>>
          /\ req.err = "action"
          /\ db = Plus(req.dbStart, Completed)

C30_Witness ==
  /\ ActionFailed /\ req.dir = "up" /\ Len(req.calls) = 2
  /\ req.reverted = <<<<req.calls[2], FALSE>>>>

\* C31: the list of migrations of a Set never holds the same title twice.
C31_RegistryTitlesUnique ==
  Distinct(migrations)

\* C32: after every request that is over, successful or failed, the titles of the Set's
\* history array are exactly the titles recorded in the table.
C32_SnapshotIsTable ==
  (pc = "idle" /\ Over(req)) => Elems(history) = Recorded(db)

\* C33: after a down with no name whose down action failed the row of that title is still
\* in the table, and the next down with no name invokes the down action of the same title.
C33_FailedDownIsRetried ==
  (Over(prev) /\ prev.dir = "down" /\ prev.name = NoName /\ prev.err = "action"
     /\ req.dir = "down" /\ req.name = NoName)
    => /\ req.dbStart[prev.calls[1]] > 0
       /\ req.calls = <<prev.calls[1]>>

\* the last request is over, stopped by a rejected save or removeEntry
StoreFailed == pc = "idle" /\ Over(req) /\ req.err = "store"

\* C34: the step in which save() is rejected after a successful up action, or
\* removeEntry() after a successful down action, ends the request with that error: the
\* row of that title is not written and no later migration of the batch is invoked.
C34_StoreFailureStops ==
  [][(/\ pc = "store"
      /\ db' = db
      /\ direction = "up" \/ db[current] > 0)
       => /\ pc' = "idle"
          /\ req'.status = "err" /\ req'.err = "store"
          /\ req'.calls = req.calls
          /\ req'.calls = SubSeq(req.batch, 1, Len(req.calls))]_vars

C34_Witness ==
  StoreFailed /\ Len(req.batch) = 2 /\ Len(req.calls) = 1

\* C38: down with no name and down 'all' on an empty table succeed, invoke no migration
\* action, emit no 'migration' event and leave the table empty.
C38_DownOnEmpty ==
  (req.dir = "down" /\ req.name \in {NoName, AllName} /\ req.dbStart = EmptyDb)
    => /\ pc = "idle" /\ req.status = "ok"
       /\ req.calls = <<>> /\ req.notes = <<>>
       /\ db = EmptyDb

\* C35: every request that was started ends with its callback called, with no error or
\* with the error that stopped it, when every migration action calls back and every
\* save / removeEntry settles.
C35_CallbackIsCalled ==
  (req.status = "running") ~> (req.status \in {"ok", "err"})

\* C36: runTransactionSequence always settles; the one of the bootstrap leaves the Set
\* with its table checked (and load() started) or with the error reported, also when no
\* connection can be obtained.
C36_RunnerSettles ==
  (phase = "Initializing") ~> (phase \in {"Loading", "Failed"})

\* C37: starting from an empty table, with the files of the directory unchanged and every
\* request made by a newly loaded Set, the titles of the table are at all times the first
\* n titles of the sorted list of migrations, for some n.
C37_HistoryIsPrefix ==
  \E n \in 0..Len(migrations) : Recorded(db) = Elems(SubSeq(migrations, 1, n))

\* a second request took back the last of two migrations and left the first one
C37_Witness ==
  /\ nreq = 2 /\ pc = "idle" /\ Over(req)
  /\ req.dir = "down" /\ req.calls = <<2>>
  /\ migrations = <<1, 2>>
  /\ Recorded(db) = {1}

\* C39: two Sets on the same table are not kept apart: when both loaded the same rows and
\* both ran `up` to the end, each of them invoked the up action of every file that was
\* pending at the load, and the table holds two rows for it.
C39_BothAppend ==
  (/\ req.dir = "up" /\ req.status = "ok"
   /\ peer.status = "ok"
   /\ req.histStart = peer.history)
    => \A t \in Elems(Pending(migrations, peer.history)) :
         /\ InSeq(req.calls, t) /\ InSeq(peer.calls, t)
         /\ db[t] = 2

\* both processes were running at the same time, invoked the up action of the same
\* pending file and each added a row for it
C39_Witness ==
  /\ req.dir = "up" /\ req.status = "ok" /\ peer.status = "ok"
  /\ req.histStart = peer.history
  /\ peer.together
  /\ \E t \in Titles : /\ InSeq(req.calls, t) /\ InSeq(peer.calls, t)
                       /\ ~InSeq(peer.history, t) /\ db[t] = 2

====
